---- MODULE Spec2Model ----
(***************************************************************************)
(* The honeypot conversation engine: the per-session ConversationTracker   *)
(* (extraction-tracker.js), the advisory call of llm-service.js and the    *)
(* request handlers of server.js that drive them.                          *)
(*                                                                         *)
(* Time is counted in minutes (the source counts milliseconds; every       *)
(* limit of the source is a whole number of minutes).  A message is        *)
(* represented by what the tracker's pattern rules find in it.             *)
(***************************************************************************)
EXTENDS Integers, Sequences, FiniteSets, TLC

NULL == "null"
UNDEFINED == "undefined"

(* ------------------------------------------------------------------ *)
(* CONFIG (extraction-tracker.js)                                       *)
(* ------------------------------------------------------------------ *)
MAX_CONVERSATION_LENGTH == 30
MIN_MESSAGES_FOR_EXTRACTION == 6
BASE_COMPLETENESS_THRESHOLD == 70
MAX_CONVERSATION_DURATION == 30
INACTIVITY_TIMEOUT == 5
SCAMMER_FRUSTRATION_THRESHOLD == 80
\* conversationHistory.length >= 4 before the advisory is consulted
MIN_HISTORY_FOR_LLM == 4
\* scammerFrustrationLevel + 15, capped at 100
FRUSTRATION_STEP == 15
FRUSTRATION_CAP == 100
\* TrackerManager.cleanup: one hour
RETENTION_WINDOW == 60
\* the minimum of messages the README gives for auto-termination
README_MINIMUM_MESSAGES == 12

Min(a, b) == IF a <= b THEN a ELSE b
Max(a, b) == IF a >= b THEN a ELSE b

Range(s) == {s[i] : i \in 1..Len(s)}

(* ------------------------------------------------------------------ *)
(* extractedData                                                        *)
(* ------------------------------------------------------------------ *)
ArrayFields ==
  {"scamType", "requestedData", "attackMethod", "psychologicalTechniques",
   "phoneNumbers", "emails", "links", "bankAccounts", "upiIds",
   "suspiciousKeywords", "keyPhrases"}

EmptyData ==
  [scamType |-> <<>>, requestedData |-> <<>>, attackMethod |-> <<>>,
   psychologicalTechniques |-> <<>>, impersonatedEntity |-> NULL,
   phoneNumbers |-> <<>>, emails |-> <<>>, links |-> <<>>,
   bankAccounts |-> <<>>, upiIds |-> <<>>, suspiciousKeywords |-> <<>>,
   scammerName |-> NULL, keyPhrases |-> <<>>]

\* push without the includes test
addItem(d, field, value) ==
  IF field \in ArrayFields
  THEN [d EXCEPT ![field] = Append(@, value)]
  ELSE d

\* a new value takes the place of the values held
addUniqueItemReplacing(d, field, value) ==
  IF field \in ArrayFields /\ value \notin Range(d[field])
  THEN [d EXCEPT ![field] = <<value>>]
  ELSE d

\* addUniqueItem(field, value): push unless the field is no array or holds it
addUniqueItem(d, field, value) ==
  IF field \in ArrayFields /\ value \notin Range(d[field])
  THEN [d EXCEPT ![field] = Append(@, value)]
  ELSE d

\* values.forEach(v => this.addUniqueItem(field, v))
RECURSIVE addEach(_, _, _)
addEach(d, field, values) ==
  IF values = <<>> THEN d
  ELSE addEach(addUniqueItem(d, field, Head(values)), field, Tail(values))

\* a threshold with twice the variation and no clamp
calculateDynamicThresholdWide(draw) ==
  BASE_COMPLETENESS_THRESHOLD + (2 * draw - 5)

\* a threshold from 80 to 94
calculateDynamicThresholdHigh(draw) ==
  BASE_COMPLETENESS_THRESHOLD + 10 + draw

\* calculateDynamicThreshold, draw = Math.floor(Math.random() * 15)
calculateDynamicThreshold(draw) ==
  Max(65, Min(85, BASE_COMPLETENESS_THRESHOLD + (draw - 5)))

\* new ConversationTracker(conversationId) at time t
NewTracker(id, t, draw) ==
  [conversationId |-> id,
   startTime |-> t,
   lastActivityTime |-> t,
   messageCount |-> 0,
   extractedData |-> EmptyData,
   completenessScore |-> 0,
   status |-> "active",
   terminationReason |-> NULL,
   scammerFrustrationLevel |-> 0,
   completenessThreshold |-> calculateDynamicThreshold(draw)]

(* ------------------------------------------------------------------ *)
(* analyzeScammerMessage: m holds what each pattern rule finds          *)
(* ------------------------------------------------------------------ *)
AnalyzeOtp(d, m) ==
  IF m.otp
  THEN addUniqueItem(addUniqueItem(d, "scamType", "OTP_THEFT"),
                     "requestedData", "OTP_CODE")
  ELSE d

\* one pass of linkPatterns.forEach for a pattern with matches `found`
AnalyzeLinkPattern(d, found) ==
  IF found = <<>> THEN d
  ELSE addUniqueItem(addUniqueItem(addEach(d, "links", found),
                                   "scamType", "PHISHING"),
                     "attackMethod", "MALICIOUS_LINK")

RECURSIVE AnalyzeLinks(_, _)
AnalyzeLinks(d, perPattern) ==
  IF perPattern = <<>> THEN d
  ELSE AnalyzeLinks(AnalyzeLinkPattern(d, Head(perPattern)), Tail(perPattern))

AnalyzeFinancial(d, m) ==
  IF m.financial
  THEN addUniqueItem(addUniqueItem(d, "scamType", "FINANCIAL_FRAUD"),
                     "requestedData", "FINANCIAL_CREDENTIALS")
  ELSE d

\* m.brand is extractImpersonatedEntity(message) when a brand is named
AnalyzeBrand(d, m) ==
  IF m.brand # NULL
  THEN addUniqueItem(addUniqueItem([d EXCEPT !.impersonatedEntity = m.brand],
                                   "scamType", "IMPERSONATION"),
                     "attackMethod", "BRAND_IMPERSONATION")
  ELSE d

AnalyzeGovernment(d, m) ==
  IF m.government
  THEN addUniqueItem([d EXCEPT !.impersonatedEntity = "Government Agency"],
                     "scamType", "GOVERNMENT_IMPERSONATION")
  ELSE d

AnalyzeTechniques(d, m) ==
  LET d1 == IF m.urgency
            THEN addUniqueItem(d, "psychologicalTechniques", "URGENCY") ELSE d
      d2 == IF m.fearOfLoss
            THEN addUniqueItem(d1, "psychologicalTechniques", "FEAR_OF_LOSS")
            ELSE d1
  IN IF m.scarcity
     THEN addUniqueItem(d2, "psychologicalTechniques", "SCARCITY") ELSE d2

\* phones, emails, bank accounts (those not already phones), UPI ids,
\* key phrases, suspicious keywords
AnalyzeContacts(d, m) ==
  addEach(addEach(addEach(addEach(addEach(addEach(d,
    "phoneNumbers", m.phones),
    "emails", m.emails),
    "bankAccounts", m.bankAccounts),
    "upiIds", m.upiIds),
    "keyPhrases", m.keyPhrases),
    "suspiciousKeywords", m.keywords)

\* a frustration level without the cap
TrackFrustrationUncapped(level, m) ==
  IF m.frustration THEN level + FRUSTRATION_STEP ELSE level

\* Math.min(100, level + 15) on an impatience marker
TrackFrustration(level, m) ==
  IF m.frustration THEN Min(FRUSTRATION_CAP, level + FRUSTRATION_STEP) ELSE level

analyzeScammerMessage(t, m) ==
  [t EXCEPT
     !.extractedData =
        AnalyzeContacts(AnalyzeTechniques(AnalyzeGovernment(AnalyzeBrand(
          AnalyzeFinancial(AnalyzeLinks(AnalyzeOtp(@, m), m.links), m), m), m), m), m),
     !.scammerFrustrationLevel = TrackFrustration(@, m)]

(* ------------------------------------------------------------------ *)
(* mergeAnalysisResult                                                  *)
(* An analysis object names the fields it carries in `present`; a field *)
(* that is not present is undefined in the source                       *)
(* ------------------------------------------------------------------ *)
Has(o, f) == f \in o.present

\* if (ext.f && ext.f.length > 0) ext.f.forEach(v => addUniqueItem(cat, v))
MergeExtArray(d, ext, f, cat) ==
  IF Has(ext, f) /\ ext[f] # <<>> THEN addEach(d, cat, ext[f]) ELSE d

MergeExtLinks(d, ext) ==
  IF Has(ext, "links") /\ ext.links # <<>>
  THEN addUniqueItem(addEach(d, "links", ext.links), "attackMethod", "MALICIOUS_LINK")
  ELSE d

\* the entity of the extraction, written even when the extraction has none
MergeExtEntityUnchecked(d, ext) ==
  IF Has(ext, "impersonatedEntity")
  THEN addUniqueItem([d EXCEPT !.impersonatedEntity = ext.impersonatedEntity],
                     "scamType", "IMPERSONATION")
  ELSE d

MergeExtEntity(d, ext) ==
  IF Has(ext, "impersonatedEntity") /\ ext.impersonatedEntity # NULL
  THEN addUniqueItem([d EXCEPT !.impersonatedEntity = ext.impersonatedEntity],
                     "scamType", "IMPERSONATION")
  ELSE d

MergeExtScamType(d, ext) ==
  IF Has(ext, "scamType") /\ ext.scamType # NULL /\ ext.scamType # "UNKNOWN"
  THEN addUniqueItem(d, "scamType", ext.scamType)
  ELSE d

MergeLlmExtraction(d, ext) ==
  LET d1 == MergeExtLinks(d, ext)
      d2 == MergeExtArray(d1, ext, "phoneNumbers", "phoneNumbers")
      d3 == MergeExtArray(d2, ext, "emails", "emails")
      d4 == MergeExtArray(d3, ext, "bankAccounts", "bankAccounts")
      d5 == MergeExtArray(d4, ext, "upiIds", "upiIds")
      d6 == MergeExtArray(d5, ext, "suspiciousKeywords", "suspiciousKeywords")
      d7 == MergeExtEntity(d6, ext)
      d8 == MergeExtArray(d7, ext, "requestedData", "requestedData")
      d9 == MergeExtScamType(d8, ext)
  IN MergeExtArray(d9, ext, "psychologicalTechniques", "psychologicalTechniques")

\* a merge that does not test whether the field is there
MergeArrayUnguarded(d, a, f, cat) == addEach(d, cat, a[f])

\* if (result.f) result.f.forEach(v => addUniqueItem(cat, v))
MergeArray(d, a, f, cat) ==
  IF Has(a, f) THEN addEach(d, cat, a[f]) ELSE d

MergeData(d, a) ==
  LET d1 == MergeArray(d, a, "scamTypes", "scamType")
      d2 == IF Has(a, "isScam") /\ a.isScam /\ d1.scamType = <<>>
            THEN addUniqueItem(d1, "scamType", "DETECTED_BY_LLM") ELSE d1
      d3 == IF Has(a, "llmExtraction") THEN MergeLlmExtraction(d2, a.llmExtraction)
            ELSE d2
      d4 == MergeArray(d3, a, "attempted", "requestedData")
      d5 == MergeArray(d4, a, "vectorLinks", "links")
      d6 == MergeArray(d5, a, "vectorPhones", "phoneNumbers")
      d7 == MergeArray(d6, a, "vectorEmails", "emails")
      d8 == IF ~Has(a, "llmExtraction")
            THEN MergeArray(d7, a, "psychologicalTechniques", "psychologicalTechniques")
            ELSE d7
  IN MergeArray(d8, a, "redFlags", "keyPhrases")

mergeAnalysisResult(t, a) ==
  [t EXCEPT
     !.extractedData = MergeData(@, a),
     !.completenessScore =
        IF Has(a, "overallCompleteness") /\ a.overallCompleteness # 0
        THEN Max(@, a.overallCompleteness) ELSE @]

(* ------------------------------------------------------------------ *)
(* calculateCompleteness                                                *)
(* ------------------------------------------------------------------ *)
RequiredWeights ==
  <<[field |-> "scamType", weight |-> 25],
    [field |-> "requestedData", weight |-> 20],
    [field |-> "attackMethod", weight |-> 20],
    [field |-> "psychologicalTechniques", weight |-> 15]>>

BonusWeights ==
  <<[field |-> "impersonatedEntity", weight |-> 5],
    [field |-> "phoneNumbers", weight |-> 5],
    [field |-> "emails", weight |-> 5],
    [field |-> "links", weight |-> 5]>>

\* the field counts: a non-empty array, or a non-array that is truthy
FieldFilled(d, field) ==
  IF field \in ArrayFields THEN d[field] # <<>> ELSE d[field] # NULL

RECURSIVE SumWeights(_, _)
SumWeights(d, ws) ==
  IF ws = <<>> THEN [score |-> 0, total |-> 0]
  ELSE LET rest == SumWeights(d, Tail(ws))
           w == Head(ws)
       IN [score |-> rest.score + (IF FieldFilled(d, w.field) THEN w.weight ELSE 0),
           total |-> rest.total + w.weight]

\* Math.round(x / y) for non-negative x and positive y
RoundDiv(x, y) == (2 * x + y) \div (2 * y)

ScoreOf(d) ==
  LET s == SumWeights(d, RequiredWeights \o BonusWeights)
  IN RoundDiv(s.score * 100, s.total)

\* completeness that keeps a larger score it finds
calculateCompletenessKeepsMax(t) ==
  [t EXCEPT !.completenessScore = Max(@, ScoreOf(t.extractedData))]

calculateCompleteness(t) ==
  [t EXCEPT !.completenessScore = ScoreOf(t.extractedData)]

(* ------------------------------------------------------------------ *)
(* terminate, generateFinalReport                                       *)
(* ------------------------------------------------------------------ *)
HighSeverityTypes == {"FINANCIAL_FRAUD", "OTP_THEFT", "IDENTITY_THEFT"}

\* a severity that is CRITICAL for every link
calculateScamSeverityByLinks(d) ==
  LET hasHighSeverity == Range(d.scamType) \cap HighSeverityTypes # {}
  IN IF d.links # <<>> THEN "CRITICAL"
     ELSE IF hasHighSeverity THEN "HIGH"
     ELSE IF d.scamType # <<>> THEN "MEDIUM"
     ELSE "LOW"

calculateScamSeverity(d) ==
  LET hasHighSeverity == Range(d.scamType) \cap HighSeverityTypes # {}
  IN IF hasHighSeverity /\ d.links # <<>> THEN "CRITICAL"
     ELSE IF hasHighSeverity THEN "HIGH"
     ELSE IF d.scamType # <<>> THEN "MEDIUM"
     ELSE "LOW"

generateRecommendations(d) ==
  (IF d.links # <<>>
   THEN <<"Report malicious links to security services", "Block domains">>
   ELSE <<>>)
  \o (IF d.phoneNumbers # <<>>
      THEN <<"Report phone numbers to fraud hotline">> ELSE <<>>)
  \o (IF d.impersonatedEntity # NULL THEN <<"Notify entity of impersonation">>
      ELSE <<>>)
  \o (IF "OTP_THEFT" \in Range(d.scamType)
      THEN <<"Warn users about OTP sharing scams">> ELSE <<>>)

\* durationSeconds = Math.round((Date.now() - startTime) / 1000)
generateFinalReport(t, time) ==
  [conversationId |-> t.conversationId,
   totalMessages |-> t.messageCount,
   durationSeconds |-> (time - t.startTime) * 60,
   completenessScore |-> t.completenessScore,
   scammerFrustrationLevel |-> t.scammerFrustrationLevel,
   extractedIntelligence |-> t.extractedData,
   scamSeverity |-> calculateScamSeverity(t.extractedData),
   dataAtRisk |-> t.extractedData.requestedData,
   recommendedActions |-> generateRecommendations(t.extractedData),
   startTime |-> t.startTime,
   endTime |-> time,
   terminationReason |-> t.terminationReason]

NoReport == [conversationId |-> NULL]

\* a terminate that records the reason and leaves the status
terminateReasonOnly(t, reason) ==
  [t EXCEPT !.terminationReason = reason]

\* terminate(reason, description): the tracker afterwards
(* ------------------------------------------------------------------ *)
(* SENDOFF_MESSAGES and getSendoffMessage. The texts are shortened.     *)
(* SENDOFF_MESSAGES is an object literal: besides its own keys it       *)
(* answers the names it inherits from Object.prototype, with functions. *)
(* ------------------------------------------------------------------ *)
SENDOFF_MESSAGES ==
  [EXTRACTION_COMPLETE |-> <<"grandson Tommy walked in", "doctor's appointment",
                             "neighbor at the door", "something burning">>,
   MAX_MESSAGES_REACHED |-> <<"phone out of battery", "ear is hurting",
                              "afternoon nap">>,
   SCAMMER_FRUSTRATED |-> <<"you seem upset", "being so slow", "call you back">>,
   MANUAL_TERMINATION |-> <<"someone at my door", "cat Whiskers">>,
   DEFAULT |-> <<"something came up", "look at the time">>]

\* names every object literal inherits, each a function
InheritedNames ==
  {"constructor", "toString", "valueOf", "hasOwnProperty", "isPrototypeOf",
   "propertyIsEnumerable", "toLocaleString"}

\* Math.random() is k / RandomSteps for a k of 0..RandomSteps-1
RandomSteps == 12

\* SENDOFF_MESSAGES[reason] || SENDOFF_MESSAGES.DEFAULT, then the element at
\* Math.floor(Math.random() * messages.length); a function has no elements
getSendoffMessage(reason, k) ==
  IF reason \in InheritedNames THEN UNDEFINED
  ELSE LET messages == IF reason \in DOMAIN SENDOFF_MESSAGES
                       THEN SENDOFF_MESSAGES[reason]
                       ELSE SENDOFF_MESSAGES.DEFAULT
       IN messages[((k * Len(messages)) \div RandomSteps) + 1]

terminate(t, reason) ==
  [t EXCEPT !.status = "completed", !.terminationReason = reason]

\* what terminate(reason, description) returns
TerminateResult(t, reason, time) ==
  [shouldContinue |-> FALSE,
   status |-> "completed",
   terminationReason |-> reason,
   finalReport |-> generateFinalReport(terminate(t, reason), time),
   progress |-> <<>>]

\* the value checkTerminationConditions returns when nothing matched;
\* duration was read when the check began
ContinueResult(t, duration) ==
  [shouldContinue |-> TRUE,
   status |-> "active",
   terminationReason |-> NULL,
   finalReport |-> NoReport,
   progress |-> <<t.messageCount, t.completenessScore, duration * 60,
                  t.scammerFrustrationLevel>>]

(* ------------------------------------------------------------------ *)
(* addMessage and checkTerminationConditions                            *)
(* ------------------------------------------------------------------ *)
\* an addMessage that sets the tracker active again
AddMessageReactivates(t, sender, m, a, time) ==
  LET t1 == [t EXCEPT !.messageCount = @ + 1, !.lastActivityTime = time,
                      !.status = "active"]
      t2 == IF sender = "scammer" THEN analyzeScammerMessage(t1, m) ELSE t1
      t3 == IF a.given THEN mergeAnalysisResult(t2, a) ELSE t2
  IN calculateCompleteness(t3)

\* addMessage up to the call of checkTerminationConditions
AddMessageBegin(t, sender, m, a, time) ==
  LET t1 == [t EXCEPT !.messageCount = @ + 1, !.lastActivityTime = time]
      t2 == IF sender = "scammer" THEN analyzeScammerMessage(t1, m) ELSE t1
      t3 == IF a.given THEN mergeAnalysisResult(t2, a) ELSE t2
  IN calculateCompleteness(t3)

\* hard limits whose length cap waits for one message more
HardLimitCountLate(t, time) ==
  LET duration == time - t.startTime
      inactivity == time - t.lastActivityTime
  IN IF t.messageCount > MAX_CONVERSATION_LENGTH THEN "MAX_MESSAGES_REACHED"
     ELSE IF duration >= MAX_CONVERSATION_DURATION THEN "MAX_DURATION_REACHED"
     ELSE IF inactivity >= INACTIVITY_TIMEOUT THEN "INACTIVITY_TIMEOUT"
     ELSE NULL

\* hard limits without the duration cap
HardLimitNoDuration(t, time) ==
  LET inactivity == time - t.lastActivityTime
  IN IF t.messageCount >= MAX_CONVERSATION_LENGTH THEN "MAX_MESSAGES_REACHED"
     ELSE IF inactivity >= INACTIVITY_TIMEOUT THEN "INACTIVITY_TIMEOUT"
     ELSE NULL

\* the hard safety limits, in the order of the source; NULL when none matches
HardLimit(t, time) ==
  LET duration == time - t.startTime
      inactivity == time - t.lastActivityTime
  IN IF t.messageCount >= MAX_CONVERSATION_LENGTH THEN "MAX_MESSAGES_REACHED"
     ELSE IF duration >= MAX_CONVERSATION_DURATION THEN "MAX_DURATION_REACHED"
     ELSE IF inactivity >= INACTIVITY_TIMEOUT THEN "INACTIVITY_TIMEOUT"
     ELSE NULL

\* an advisory that is consulted whatever the length of the history
AsksAdvisoryAnyHistory(t, historyLength) ==
  t.messageCount >= MIN_MESSAGES_FOR_EXTRACTION

\* the advisory is asked only with enough messages and enough history
AsksAdvisory(t, historyLength) ==
  /\ t.messageCount >= MIN_MESSAGES_FOR_EXTRACTION
  /\ historyLength >= MIN_HISTORY_FOR_LLM

\* hardcoded rules whose completeness rule does not wait for the minimum
FallbackRuleNoMinimum(t) ==
  IF t.completenessScore >= t.completenessThreshold
  THEN "EXTRACTION_COMPLETE"
  ELSE IF t.scammerFrustrationLevel >= SCAMMER_FRUSTRATION_THRESHOLD
  THEN "SCAMMER_FRUSTRATED"
  ELSE NULL

\* hardcoded rules whose frustration rule asks for more than the threshold
FallbackRuleAboveThreshold(t) ==
  IF /\ t.messageCount >= MIN_MESSAGES_FOR_EXTRACTION
     /\ t.completenessScore >= t.completenessThreshold
  THEN "EXTRACTION_COMPLETE"
  ELSE IF t.scammerFrustrationLevel > SCAMMER_FRUSTRATION_THRESHOLD + FRUSTRATION_STEP
  THEN "SCAMMER_FRUSTRATED"
  ELSE NULL

\* hardcoded rules that look at the frustration first
FallbackRuleFrustrationFirst(t) ==
  IF t.scammerFrustrationLevel >= SCAMMER_FRUSTRATION_THRESHOLD
  THEN "SCAMMER_FRUSTRATED"
  ELSE IF /\ t.messageCount >= MIN_MESSAGES_FOR_EXTRACTION
          /\ t.completenessScore >= t.completenessThreshold
  THEN "EXTRACTION_COMPLETE"
  ELSE NULL

\* the hardcoded rules; NULL when the conversation continues
FallbackRule(t) ==
  IF /\ t.messageCount >= MIN_MESSAGES_FOR_EXTRACTION
     /\ t.completenessScore >= t.completenessThreshold
  THEN "EXTRACTION_COMPLETE"
  ELSE IF t.scammerFrustrationLevel >= SCAMMER_FRUSTRATION_THRESHOLD
  THEN "SCAMMER_FRUSTRATED"
  ELSE NULL

(* ------------------------------------------------------------------ *)
(* shouldTerminateWithLLM (llm-service.js)                              *)
(* raw is what the provider did: kind "error" (the call threw or timed  *)
(* out), "text" (no JSON in the answer) or "json" (an object with the   *)
(* fields named in raw.present)                                         *)
(* ------------------------------------------------------------------ *)
ContinueDecision == [shouldTerminate |-> FALSE, reason |-> "CONTINUE"]

\* a call that reads a failure of the provider as advice to stop
shouldTerminateWithLLMOnError(client, raw) ==
  IF client = NULL THEN ContinueDecision
  ELSE IF raw.kind # "json"
  THEN [shouldTerminate |-> TRUE, reason |-> "TERMINATE_SUSPICIOUS"]
  ELSE [shouldTerminate |-> Has(raw, "shouldTerminate") /\ raw.shouldTerminate,
        reason |-> IF Has(raw, "reason") THEN raw.reason ELSE "CONTINUE"]

shouldTerminateWithLLM(client, raw) ==
  IF client = NULL THEN ContinueDecision
  ELSE IF raw.kind # "json" THEN ContinueDecision
  ELSE [shouldTerminate |-> Has(raw, "shouldTerminate") /\ raw.shouldTerminate,
        reason |-> IF Has(raw, "reason") THEN raw.reason ELSE "CONTINUE"]

\* terminationMap[llmDecision.reason] || 'LLM_DECISION'
TerminationMap(reason) ==
  CASE reason = "TERMINATE_SUCCESS" -> "EXTRACTION_COMPLETE"
    [] reason = "TERMINATE_SUSPICIOUS" -> "SCAMMER_SUSPICIOUS"
    [] reason = "TERMINATE_FRUSTRATION" -> "SCAMMER_FRUSTRATED"
    [] reason = "TERMINATE_COMPLETE" -> "EXTRACTION_COMPLETE"
    [] OTHER -> "LLM_DECISION"

\* the reason checkTerminationConditions settles on once the advisory
\* (if any) has answered; NULL when the conversation continues
DecideAfterAdvisory(t, decision) ==
  IF decision.shouldTerminate THEN TerminationMap(decision.reason)
  ELSE FallbackRule(t)

(* ------------------------------------------------------------------ *)
(* Messages: what the pattern rules of analyzeScammerMessage find in    *)
(* the text.  links holds the matches of the three link patterns.       *)
(* ------------------------------------------------------------------ *)
PlainMessage(text) ==
  [text |-> text, otp |-> FALSE, links |-> <<<<>>, <<>>, <<>>>>,
   financial |-> FALSE, brand |-> NULL, government |-> FALSE,
   urgency |-> FALSE, fearOfLoss |-> FALSE, scarcity |-> FALSE,
   frustration |-> FALSE, phones |-> <<>>, emails |-> <<>>,
   bankAccounts |-> <<>>, upiIds |-> <<>>, keyPhrases |-> <<>>,
   keywords |-> <<>>]

MsgBenign == PlainMessage("ok")

MsgFrustrated == [PlainMessage("are you there") EXCEPT !.frustration = TRUE]

MsgOtp ==
  [PlainMessage("Send your OTP code now, urgent!") EXCEPT
     !.otp = TRUE, !.urgency = TRUE,
     !.keywords = <<"urgent", "otp", "code">>]

MsgRich ==
  [PlainMessage("urgent: your bank card is blocked, verify at http://x.io") EXCEPT
     !.links = <<<<"http://x.io">>, <<>>, <<"x.io">>>>,
     !.financial = TRUE, !.urgency = TRUE, !.fearOfLoss = TRUE,
     !.keywords = <<"urgent", "verify", "bank">>]

\* MsgRich with an impatience marker in front
MsgPushy ==
  [MsgRich EXCEPT
     !.text = "hurry up! urgent: your bank card is blocked, verify at http://x.io",
     !.frustration = TRUE]

\* a scammerMessage that is a number: truthy, but no string
MsgNumber == PlainMessage("12345 (number)")

IsString(m) == m # MsgNumber

\* a link and nothing else
MsgLink ==
  [PlainMessage("see http://z.io") EXCEPT
     !.links = <<<<"http://z.io">>, <<>>, <<"z.io">>>>]

\* a brand is named
MsgBrand == [PlainMessage("this is amazon support") EXCEPT !.brand = "Amazon"]

\* the government is named
MsgGovernment ==
  [PlainMessage("government tax notice") EXCEPT !.government = TRUE]

(* ------------------------------------------------------------------ *)
(* Analysis objects handed to addMessage                                *)
(* ------------------------------------------------------------------ *)
EmptyExtraction ==
  [present |-> {"phoneNumbers", "emails", "links", "bankAccounts", "upiIds",
                "suspiciousKeywords", "impersonatedEntity", "requestedData",
                "scamType", "psychologicalTechniques"},
   links |-> <<>>, phoneNumbers |-> <<>>, emails |-> <<>>,
   bankAccounts |-> <<>>, upiIds |-> <<>>, suspiciousKeywords |-> <<>>,
   impersonatedEntity |-> NULL, requestedData |-> <<>>,
   scamType |-> "UNKNOWN", psychologicalTechniques |-> <<>>]

\* addMessage called without analysisResult
NoAnalysis ==
  [given |-> FALSE, present |-> {}, scamTypes |-> <<>>, isScam |-> FALSE,
   llmExtraction |-> EmptyExtraction, attempted |-> <<>>,
   vectorLinks |-> <<>>, vectorPhones |-> <<>>, vectorEmails |-> <<>>,
   psychologicalTechniques |-> <<>>, redFlags |-> <<>>,
   overallCompleteness |-> 0]

\* combinedAnalysis = { ...scamAnalysis, llmExtraction } (server.js)
CombinedAnalysis(scamTypes, isScam, redFlags, ext) ==
  [NoAnalysis EXCEPT
     !.given = TRUE,
     !.present = {"scamTypes", "isScam", "redFlags", "llmExtraction"},
     !.scamTypes = scamTypes, !.isScam = isScam, !.redFlags = redFlags,
     !.llmExtraction = ext]

\* fallbackDetection and fallbackMessageExtraction (llm-service.js) on the
\* messages above
FallbackAnalysis(m) ==
  CASE m.text = MsgOtp.text ->
         CombinedAnalysis(<<"OTP_THEFT", "URGENCY_MANIPULATION">>, FALSE,
           <<"Requests verification code", "Creates false urgency">>,
           [EmptyExtraction EXCEPT
              !.suspiciousKeywords = <<"urgent", "otp", "code">>,
              !.scamType = "OTP_THEFT"])
    [] m.text \in {MsgRich.text, MsgPushy.text} ->
         CombinedAnalysis(<<"URGENCY_MANIPULATION", "PHISHING_LINK", "FINANCIAL_FRAUD">>,
           TRUE,
           <<"Creates false urgency", "Contains suspicious link",
             "Mentions financial information">>,
           [EmptyExtraction EXCEPT
              !.links = <<"http://x.io", "x.io">>,
              !.suspiciousKeywords = <<"urgent", "verify", "blocked">>,
              !.scamType = "PHISHING"])
    [] OTHER -> CombinedAnalysis(<<>>, FALSE, <<>>, EmptyExtraction)

\* answers of a configured provider
LlmClean == CombinedAnalysis(<<>>, FALSE, <<>>, EmptyExtraction)

LlmScam ==
  CombinedAnalysis(<<"PHISHING">>, TRUE, <<"asks for money">>,
    [EmptyExtraction EXCEPT !.emails = <<"pay@x.io">>, !.scamType = "PHISHING"])

\* an analysis that carries nothing but completenessScore.overallCompleteness
AnalysisScored ==
  [NoAnalysis EXCEPT !.given = TRUE, !.present = {"overallCompleteness"},
                     !.overallCompleteness = 90]

\* an analysis in the older format, without llmExtraction
AnalysisOld ==
  [NoAnalysis EXCEPT
     !.given = TRUE,
     !.present = {"attempted", "vectorLinks", "vectorPhones", "vectorEmails",
                  "psychologicalTechniques", "overallCompleteness"},
     !.attempted = <<"PASSWORD">>, !.vectorLinks = <<"http://y.io">>,
     !.psychologicalTechniques = <<"AUTHORITY">>,
     !.overallCompleteness = 40]

\* an extraction that names the impersonated entity
AnalysisEntity ==
  CombinedAnalysis(<<>>, TRUE, <<>>,
    [EmptyExtraction EXCEPT !.impersonatedEntity = "PayPal"])

\* an analysis with every field, each with a value of its own. In
\* Partial(top, ext) only the fields named are there; what the record holds
\* under another name is what a merge that reads a missing field brings in.
AnalysisFull ==
  [given |-> TRUE,
   present |-> {"scamTypes", "isScam", "llmExtraction", "attempted",
                "vectorLinks", "vectorPhones", "vectorEmails",
                "psychologicalTechniques", "redFlags", "overallCompleteness"},
   scamTypes |-> <<"LOTTERY">>, isScam |-> TRUE,
   llmExtraction |->
     [EmptyExtraction EXCEPT
        !.links = <<"http://e.io">>, !.phoneNumbers = <<"+1-555-0199">>,
        !.emails = <<"e@e.io">>, !.bankAccounts = <<"ACC-1">>,
        !.upiIds = <<"e@upi">>, !.suspiciousKeywords = <<"kyc">>,
        !.impersonatedEntity = "Netflix", !.requestedData = <<"CVV">>,
        !.scamType = "TECH_SUPPORT",
        !.psychologicalTechniques = <<"RECIPROCITY">>],
   attempted |-> <<"PASSWORD">>, vectorLinks |-> <<"http://v.io">>,
   vectorPhones |-> <<"+1-555-0100">>, vectorEmails |-> <<"v@v.io">>,
   psychologicalTechniques |-> <<"AUTHORITY">>,
   redFlags |-> <<"too good to be true">>,
   overallCompleteness |-> 40]

Partial(top, ext) ==
  [AnalysisFull EXCEPT !.present = top, !.llmExtraction.present = ext]

\* every subset of the fields of the analysis with a whole extraction, and
\* every subset of the fields of the extraction
PartialAnalyses ==
  {Partial(top, EmptyExtraction.present) : top \in SUBSET AnalysisFull.present}
  \cup {Partial({"llmExtraction"}, ext) : ext \in SUBSET EmptyExtraction.present}

(* ------------------------------------------------------------------ *)
(* Bounds of the model                                                  *)
(* ------------------------------------------------------------------ *)
\* session ids requests may name
Ids == {"s1", "s2"}
\* /honeypot/respond handlers that may be suspended together
Slots == {1, 2}
\* a conversation is fed while it has counted fewer messages than this
MaxFed == 7
\* ... up to the length cap and a little beyond
MaxFedCap == 31
\* ... while a frustrated scammer is listened to
MaxFedFallback == 11
\* ... while two requests race
MaxFedRace == 3
\* ... while the tracker is called directly
MaxFedTracker == 3
\* ... while every request passes the key check
MaxFedAuth == 4
\* ... and the length of the history when it is ended by hand
MaxHistoryAuth == 3
\* ... while the sendoff messages are looked at
MaxFedSendoff == 8
\* ... and the length of the history when it is ended by hand
MaxHistorySendoff == 8
\* ... while analyses with missing fields are merged
MaxFedPartial == 1
\* ... while a conversation is ended, swept and asked for again
MaxFedRevive == 5
\* ... and the length of its history when it is ended by hand
MaxHistoryRevive == 6
\* ... while trackers of every threshold are fed
MaxFedThreshold == 7
\* ... while the registry is called directly
MaxFedManager == 3
\* ... while the tracker is created and called directly
MaxFedDirect == 8
\* ... while the tracker is called directly and asked for its report
MaxFedReport == 3
\* ... of the second conversation when there are two
MaxFedOther == 2
\* ... of a conversation that waits for the sweep
MaxFedSweep == 4
\* ... and the length of its history when it is ended by hand
MaxHistorySweep == 3
\* manual termination is tried while the stored history is shorter
MaxHistory == 9
\* ... while two requests race
MaxHistoryRace == 4
\* the instants at which the clock is read: the inactivity limit, the
\* duration limit, and past the retention window
Instants == {INACTIVITY_TIMEOUT, MAX_CONVERSATION_DURATION}
SweepInstants == {RETENTION_WINDOW + 1}
\* the last instant at which a tracker created at 0 is kept, and the first
\* at which it is swept
WindowInstants == {RETENTION_WINDOW, RETENTION_WINDOW + 1}
\* values of Math.floor(Math.random() * 15)
AllDraws == 0..14
\* messages a request may carry
Messages == {MsgBenign, MsgFrustrated, MsgOtp, MsgRich, MsgPushy}
\* analyses a configured provider may return
LlmAnalyses == {LlmClean, LlmScam}
\* messages and analyses addMessage is called with directly
TrackerMessages == {MsgBenign, MsgOtp, MsgRich, MsgBrand, MsgGovernment}
TrackerAnalyses == {NoAnalysis, LlmScam, AnalysisScored, AnalysisOld, AnalysisEntity}
\* conversationHistory of the request body: NULL when the body has none,
\* "empty" for []
ClientHistories == {NULL, "empty"}
\* reason of the body of POST /tracker/:id/terminate; NULL when it has none
ManualReasons == {NULL, "OPERATOR_STOP"}
\* ... with reasons that are keys of SENDOFF_MESSAGES or names it inherits
SendoffReasons ==
  {NULL, "OPERATOR_STOP", "EXTRACTION_COMPLETE", "constructor", "toString"}
\* values of Math.random() * RandomSteps: the least and the greatest
Randoms == {0, RandomSteps - 1}

\* what the provider does with a termination question
Answer(shouldTerminate, reason) ==
  [kind |-> "json", present |-> {"shouldTerminate", "reason"},
   shouldTerminate |-> shouldTerminate, reason |-> reason]

AnswerError ==
  [kind |-> "error", present |-> {}, shouldTerminate |-> FALSE, reason |-> NULL]

AnswerText ==
  [kind |-> "text", present |-> {}, shouldTerminate |-> FALSE, reason |-> NULL]

AnswerNoReason ==
  [kind |-> "json", present |-> {"shouldTerminate"},
   shouldTerminate |-> TRUE, reason |-> NULL]

AnswerNoFields ==
  [kind |-> "json", present |-> {}, shouldTerminate |-> FALSE, reason |-> NULL]

\* the provider was not called
NoAnswer ==
  [kind |-> "none", present |-> {}, shouldTerminate |-> FALSE, reason |-> NULL]

AdvisoryAnswers ==
  {AnswerError, AnswerText, AnswerNoReason, AnswerNoFields,
   Answer(FALSE, "CONTINUE"), Answer(TRUE, "CONTINUE"),
   Answer(TRUE, "TERMINATE_SUCCESS"), Answer(TRUE, "TERMINATE_SUSPICIOUS"),
   Answer(TRUE, "TERMINATE_FRUSTRATION"), Answer(TRUE, "TERMINATE_COMPLETE")}

\* tracker objects and history arrays alive at once: one per id in the
\* maps and one per handler holding a reference
ObjIds == 1..(Cardinality(Ids) + Cardinality(Slots))

(* ------------------------------------------------------------------ *)
(* State                                                                *)
(* ------------------------------------------------------------------ *)
VARIABLES
  llmClient,      \* llm-service.js llmClient: NULL without an API key
  now,            \* Date.now(), in minutes
  objs,           \* the ConversationTracker objects alive, by object id
  trackers,       \* TrackerManager.trackers: conversation id -> object id
  arrs,           \* the history arrays alive: array id -> length
  conversations,  \* server.js conversations: conversation id -> array id
  reqs,           \* /honeypot/respond handlers suspended at an await
  out             \* what the last step returned or answered

vars == <<llmClient, now, objs, trackers, arrs, conversations, reqs, out>>

IdleReq ==
  [pc |-> "idle", id |-> NULL, tracker |-> 0, history |-> 0,
   message |-> MsgBenign, duration |-> 0, prevActivity |-> 0, at |-> 0]

NoResult ==
  [shouldContinue |-> FALSE, status |-> NULL, terminationReason |-> NULL,
   finalReport |-> NoReport, progress |-> <<>>]

\* op: the step; http: the status answered (0: nothing answered);
\* result: the value addMessage or terminate returned in this step;
\* checked: the tracker as checkTerminationConditions last read it (for a
\* manual termination: the tracker before it);
\* asked / answer / decision: whether shouldTerminateWithLLM was called,
\* what the provider did and what the call returned; prevActivity:
\* lastActivityTime before addMessage; at: the time the check began;
\* webhook: the handler has scheduled sendExtractedIntelligence for id;
\* sendoff: the sendoff message the handler pushed to the history
NoOut ==
  [op |-> "none", id |-> NULL, obj |-> 0, http |-> 0, sender |-> NULL,
   result |-> NoResult, checked |-> NewTracker(NULL, 0, 0), asked |-> FALSE,
   answer |-> NoAnswer, decision |-> ContinueDecision,
   prevActivity |-> 0, at |-> 0, body |-> <<>>, webhook |-> FALSE,
   sendoff |-> NULL]

Restrict(f, S) == [x \in S |-> f[x]]

\* drop the objects nothing refers to any more
LiveObjs(o, tr, rq) ==
  Restrict(o, DOMAIN o \cap ({tr[i] : i \in DOMAIN tr}
                             \cup {rq[s].tracker : s \in Slots}))

LiveArrs(a, cv, rq) ==
  Restrict(a, DOMAIN a \cap ({cv[i] : i \in DOMAIN cv}
                             \cup {rq[s].history : s \in Slots}))

FreshId(f) == CHOOSE x \in ObjIds \ DOMAIN f : \A y \in ObjIds \ DOMAIN f : x <= y

Put(f, k, v) == [x \in DOMAIN f \cup {k} |-> IF x = k THEN v ELSE f[x]]

Remove(f, k) == Restrict(f, DOMAIN f \ {k})

InitWith(clients) ==
  /\ llmClient \in clients
  /\ now = 0
  /\ objs = <<>>
  /\ trackers = <<>>
  /\ arrs = <<>>
  /\ conversations = <<>>
  /\ reqs = [s \in Slots |-> IdleReq]
  /\ out = NoOut

Init == InitWith({NULL, "client"})

\* Without a provider no handler ever waits on the network: it runs to its
\* end before the next request, timer or clock reading is served.
NoneInFlight == \A s \in Slots : reqs[s].pc = "idle"

TaskReady == llmClient # NULL \/ NoneInFlight

(* ------------------------------------------------------------------ *)
(* Steps                                                                *)
(* ------------------------------------------------------------------ *)
\* the next state, with the objects nothing refers to any more dropped
Commit(objs1, trackers1, arrs1, conversations1, reqs1, out1) ==
  /\ objs' = LiveObjs(objs1, trackers1, reqs1)
  /\ trackers' = trackers1
  /\ arrs' = LiveArrs(arrs1, conversations1, reqs1)
  /\ conversations' = conversations1
  /\ reqs' = reqs1
  /\ out' = out1
  /\ UNCHANGED <<llmClient, now>>

\* a getTracker that makes a new tracker every time
getTrackerAlwaysNew(id, draw) ==
  LET o == FreshId(objs)
  IN [obj |-> o,
      objs |-> Put(objs, o, NewTracker(id, now, draw)),
      trackers |-> Put(trackers, id, o)]

\* TrackerManager.getTracker(id): the object id, the objects and the map
\* afterwards; draw is the random draw of a tracker created here
getTracker(id, draw) ==
  IF id \in DOMAIN trackers
  THEN [obj |-> trackers[id], objs |-> objs, trackers |-> trackers]
  ELSE LET o == FreshId(objs)
       IN [obj |-> o,
           objs |-> Put(objs, o, NewTracker(id, now, draw)),
           trackers |-> Put(trackers, id, o)]

\* checkTerminationConditions up to its first await: terminate at once,
\* ask the advisory, or go on
CheckBegin(t, historyLength, time) ==
  LET hard == HardLimit(t, time)
      rule == FallbackRule(t)
  IN IF hard # NULL THEN [next |-> "terminate", reason |-> hard, hard |-> hard]
     ELSE IF AsksAdvisory(t, historyLength)
     THEN [next |-> "ask", reason |-> NULL, hard |-> NULL]
     ELSE IF rule # NULL THEN [next |-> "terminate", reason |-> rule, hard |-> NULL]
     ELSE [next |-> "continue", reason |-> NULL, hard |-> NULL]

\* POST /honeypot/respond up to `await Promise.all([detect, extract])`,
\* or to its answer for a conversation that has ended
Respond(s, id, m, h, draw) ==
  /\ TaskReady
  /\ reqs[s].pc = "idle"
  /\ \A r \in Slots : r < s => reqs[r].pc # "idle"
  /\ draw \in AllDraws
  /\ LET g == getTracker(id, draw)
         t == g.objs[g.obj]
         stored == h = NULL /\ id \in DOMAIN conversations
         a == IF stored THEN conversations[id] ELSE FreshId(arrs)
         before == IF stored THEN arrs[a] ELSE 0
     IN IF t.status = "completed"
        THEN Commit(g.objs, g.trackers, arrs, conversations, reqs,
               [NoOut EXCEPT !.op = "respond", !.id = id, !.obj = g.obj,
                  !.http = 200, !.webhook = TRUE,
                  !.result = [NoResult EXCEPT
                     !.status = "completed",
                     !.terminationReason = t.terminationReason,
                     !.finalReport = generateFinalReport(t, now)],
                  !.body = <<"terminated", t.messageCount>>])
        ELSE Commit(g.objs, g.trackers, Put(arrs, a, before + 1), conversations,
               [reqs EXCEPT ![s] = [IdleReq EXCEPT !.pc = "analysis", !.id = id,
                                      !.tracker = g.obj, !.history = a,
                                      !.message = m]],
               NoOut)

\* the termination branch of the handler: sendoff pushed, history stored,
\* the request answered
AnswerTerminated(s, t2, result, o1) ==
  LET r == reqs[s]
  IN \E k \in Randoms :
       Commit([objs EXCEPT ![r.tracker] = t2], trackers,
              [arrs EXCEPT ![r.history] = @ + 1],
              Put(conversations, r.id, r.history),
              [reqs EXCEPT ![s] = IdleReq],
              [o1 EXCEPT !.http = 200, !.result = result, !.webhook = TRUE,
                         !.sendoff = getSendoffMessage(result.terminationReason, k),
                         !.body = <<"terminated", arrs[r.history] + 1>>])

\* the detection and extraction calls have answered with analysis a:
\* tracker.addMessage('scammer', ...) up to the advisory call or its end
Analysed(s, a) ==
  LET r == reqs[s]
      t0 == objs[r.tracker]
      t1 == AddMessageBegin(t0, "scammer", r.message, a, now)
      c == CheckBegin(t1, arrs[r.history], now)
      o1 == [NoOut EXCEPT !.op = "addMessage", !.id = r.id, !.obj = r.tracker,
               !.sender = "scammer", !.checked = t1,
               !.prevActivity = t0.lastActivityTime, !.at = now]
  IN /\ r.pc = "analysis"
     /\ IsString(r.message)
     /\ a \in (IF llmClient = NULL THEN {} ELSE LlmAnalyses)
              \cup {FallbackAnalysis(r.message)}
     /\ CASE c.next = "terminate" ->
               AnswerTerminated(s, terminate(t1, c.reason),
                                TerminateResult(t1, c.reason, now), o1)
          [] c.next = "ask" ->
               Commit([objs EXCEPT ![r.tracker] = t1], trackers, arrs,
                      conversations,
                      [reqs EXCEPT ![s] = [r EXCEPT !.pc = "advisory",
                         !.duration = now - t1.startTime,
                         !.prevActivity = t0.lastActivityTime, !.at = now]],
                      NoOut)
          [] c.next = "continue" ->
               Commit([objs EXCEPT ![r.tracker] = t1], trackers, arrs,
                      conversations,
                      [reqs EXCEPT ![s] = [r EXCEPT !.pc = "reply"]],
                      [o1 EXCEPT !.result = ContinueResult(t1, now - t1.startTime)])

\* the message is no string: message.toLowerCase() throws, in
\* fallbackDetection when the provider is absent or fails (answered FALSE),
\* in analyzeScammerMessage after messageCount++ when the provider has
\* answered; the handler's catch answers 500
Thrown(s, answered) ==
  LET r == reqs[s]
      t0 == objs[r.tracker]
      t1 == IF answered
            THEN [t0 EXCEPT !.messageCount = @ + 1, !.lastActivityTime = now]
            ELSE t0
  IN /\ r.pc = "analysis"
     /\ ~IsString(r.message)
     /\ answered \in (IF llmClient = NULL THEN {FALSE} ELSE BOOLEAN)
     /\ Commit([objs EXCEPT ![r.tracker] = t1], trackers, arrs, conversations,
               [reqs EXCEPT ![s] = IdleReq],
               [NoOut EXCEPT !.op = "respond", !.id = r.id, !.obj = r.tracker,
                  !.http = 500, !.checked = t0, !.body = <<"error", answered>>])

\* shouldTerminateWithLLM has answered: the rest of checkTerminationConditions
Advised(s, raw) ==
  LET r == reqs[s]
      t == objs[r.tracker]
      decision == shouldTerminateWithLLM(llmClient, raw)
      reason == DecideAfterAdvisory(t, decision)
      o1 == [NoOut EXCEPT !.op = "addMessage", !.id = r.id, !.obj = r.tracker,
               !.sender = "scammer", !.checked = t, !.asked = TRUE,
               !.answer = IF llmClient = NULL THEN NoAnswer ELSE raw,
               !.decision = decision,
               !.prevActivity = r.prevActivity, !.at = r.at]
  IN /\ r.pc = "advisory"
     /\ raw \in AdvisoryAnswers
     /\ IF reason # NULL
        THEN AnswerTerminated(s, terminate(t, reason),
                              TerminateResult(t, reason, now), o1)
        ELSE Commit(objs, trackers, arrs, conversations,
                    [reqs EXCEPT ![s] = [r EXCEPT !.pc = "reply"]],
                    [o1 EXCEPT !.result = ContinueResult(t, r.duration)])

\* generateHoneypotReplyWithLLM has answered: the reply is pushed and
\* counted (tracker.addMessage('honeypot', reply), its result unused),
\* the history stored, the request answered
Replied(s) ==
  LET r == reqs[s]
      t0 == objs[r.tracker]
      t1 == AddMessageBegin(t0, "honeypot", MsgBenign, NoAnalysis, now)
      c == CheckBegin(t1, 0, now)
      t2 == IF c.next = "terminate" THEN terminate(t1, c.reason) ELSE t1
  IN /\ r.pc = "reply"
     /\ Commit([objs EXCEPT ![r.tracker] = t2], trackers,
               [arrs EXCEPT ![r.history] = @ + 1],
               Put(conversations, r.id, r.history),
               [reqs EXCEPT ![s] = IdleReq],
               [NoOut EXCEPT !.op = "addMessage", !.id = r.id, !.obj = r.tracker,
                  !.sender = "honeypot", !.http = 200, !.checked = t1,
                  !.prevActivity = t0.lastActivityTime, !.at = now,
                  !.result = IF c.next = "terminate"
                             THEN TerminateResult(t1, c.reason, now)
                             ELSE ContinueResult(t1, now - t1.startTime),
                  !.body = <<"success", arrs[r.history] + 1>>])

\* trackerManager.getTracker(id), called directly
GetTracker(id, draw) ==
  /\ TaskReady
  /\ draw \in AllDraws
  /\ LET g == getTracker(id, draw)
     IN Commit(g.objs, g.trackers, arrs, conversations, reqs,
               [NoOut EXCEPT !.op = "getTracker", !.id = id, !.obj = g.obj,
                  !.body = <<draw>>])

\* trackerManager.removeTracker(id), called directly
RemoveTracker(id) ==
  /\ TaskReady
  /\ Commit(objs, Remove(trackers, id), arrs, conversations, reqs,
            [NoOut EXCEPT !.op = "removeTracker", !.id = id,
               !.body = <<id \in DOMAIN trackers>>])

\* tracker.addMessage(sender, message, analysisResult) with no history: the
\* whole call, as nothing in it waits
AddMessage(id, sender, m, a) ==
  /\ TaskReady
  /\ id \in DOMAIN trackers
  /\ LET o == trackers[id]
         t0 == objs[o]
         t1 == AddMessageBegin(t0, sender, m, a, now)
         c == CheckBegin(t1, 0, now)
         t2 == IF c.next = "terminate" THEN terminate(t1, c.reason) ELSE t1
     IN Commit([objs EXCEPT ![o] = t2], trackers, arrs, conversations, reqs,
               [NoOut EXCEPT !.op = "addMessage", !.id = id, !.obj = o,
                  !.sender = sender, !.checked = t1,
                  !.prevActivity = t0.lastActivityTime, !.at = now,
                  !.result = IF c.next = "terminate"
                             THEN TerminateResult(t1, c.reason, now)
                             ELSE ContinueResult(t1, now - t1.startTime),
                  !.body = <<m.text, a, t0.extractedData>>])

\* tracker.terminate(reason, description) called on the tracker of id
TerminateTracker(id, reason) ==
  /\ TaskReady
  /\ id \in DOMAIN trackers
  /\ LET o == trackers[id]
         t == objs[o]
     IN Commit([objs EXCEPT ![o] = terminate(t, reason)], trackers, arrs,
               conversations, reqs,
               [NoOut EXCEPT !.op = "tracker.terminate", !.id = id, !.obj = o,
                  !.checked = t, !.body = <<reason>>,
                  !.result = TerminateResult(t, reason, now)])

(* ------------------------------------------------------------------ *)
(* The key check in front of the routes. A request that has arrived is  *)
(* held in out (op "request", body <<path, x-api-key, method>>) until   *)
(* the middleware and the route have run, which is the next step.       *)
(* ------------------------------------------------------------------ *)
\* process.env.API_KEY when it is configured
API_KEY == "secret-key"

\* x-api-key of a request: none, a wrong one, the right one
RequestKeys == {NULL, "wrong-key", API_KEY}

publicEndpoints == {"/health", "/config", "/"}

ProtectedEndpoints ==
  {"/honeypot/respond", "/tracker/:id/terminate", "/conversation/:id",
   "/active-conversations"}

\* the method of the route registered for a path
RouteMethod(path) ==
  CASE path \in {"/honeypot/respond", "/tracker/:id/terminate"} -> "POST"
    [] path = "/conversation/:id" -> "DELETE"
    [] OTHER -> "GET"

\* answers a preflight itself, before any other middleware or route
corsMiddleware(method) == IF method = "OPTIONS" THEN "204" ELSE "next"

\* an authMiddleware that lets a request without a key pass
authMiddlewareKeyOptional(validKey, apiKey) ==
  IF validKey = NULL THEN "next"
  ELSE IF apiKey # NULL /\ apiKey # validKey THEN "401"
  ELSE "next"

authMiddleware(validKey, apiKey) ==
  IF validKey = NULL THEN "next"
  ELSE IF apiKey = NULL \/ apiKey # validKey THEN "401"
  ELSE "next"

\* app.use((req, res, next) => ...): public endpoints skip authMiddleware
PublicFilter(path, validKey, apiKey) ==
  IF path \in publicEndpoints THEN "next" ELSE authMiddleware(validKey, apiKey)

\* app.use(corsMiddleware) and then the filter above, in this order
Middleware(method, path, validKey, apiKey) ==
  IF corsMiddleware(method) # "next" THEN corsMiddleware(method)
  ELSE PublicFilter(path, validKey, apiKey)

Arrive(method, path, key) ==
  /\ TaskReady
  /\ out.op # "request"
  /\ out' = [NoOut EXCEPT !.op = "request", !.body = <<path, key, method>>]
  /\ UNCHANGED <<llmClient, now, objs, trackers, arrs, conversations, reqs>>

Passes ==
  /\ out.op = "request"
  /\ Middleware(out.body[3], out.body[1], API_KEY, out.body[2]) = "next"

\* corsMiddleware answers 204
Preflight ==
  /\ out.op = "request"
  /\ Middleware(out.body[3], out.body[1], API_KEY, out.body[2]) = "204"
  /\ Commit(objs, trackers, arrs, conversations, reqs,
            [NoOut EXCEPT !.op = out.body[1], !.http = 204, !.body = out.body])

\* authMiddleware answers 401
Reject ==
  /\ out.op = "request"
  /\ Middleware(out.body[3], out.body[1], API_KEY, out.body[2]) = "401"
  /\ Commit(objs, trackers, arrs, conversations, reqs,
            [NoOut EXCEPT !.op = out.body[1], !.http = 401, !.body = out.body])

\* GET /health, GET /config, GET /
ServePublic ==
  /\ Passes
  /\ out.body[1] \in publicEndpoints
  /\ Commit(objs, trackers, arrs, conversations, reqs,
            [NoOut EXCEPT !.op = out.body[1], !.http = 200, !.body = out.body])

\* GET /tracker/:id
ReadTracker(id, draw) ==
  /\ TaskReady
  /\ draw \in AllDraws
  /\ IF id \notin DOMAIN conversations
     THEN Commit(objs, trackers, arrs, conversations, reqs,
                 [NoOut EXCEPT !.op = "tracker", !.id = id, !.http = 404])
     ELSE LET g == getTracker(id, draw)
              t == g.objs[g.obj]
          IN Commit(g.objs, g.trackers, arrs, conversations, reqs,
                    [NoOut EXCEPT !.op = "tracker", !.id = id, !.obj = g.obj,
                       !.http = 200, !.checked = t,
                       !.body = <<t.status, t.messageCount>>])

\* GET /conversation/:id
ReadConversation(id, draw) ==
  /\ TaskReady
  /\ draw \in AllDraws
  /\ IF id \notin DOMAIN conversations
     THEN Commit(objs, trackers, arrs, conversations, reqs,
                 [NoOut EXCEPT !.op = "conversation", !.id = id, !.http = 404])
     ELSE LET g == getTracker(id, draw)
              t == g.objs[g.obj]
          IN Commit(g.objs, g.trackers, arrs, conversations, reqs,
                    [NoOut EXCEPT !.op = "conversation", !.id = id,
                       !.obj = g.obj, !.http = 200, !.checked = t,
                       !.body = <<arrs[conversations[id]], t.status>>])

\* POST /tracker/:id/terminate
Terminate(id, reason, draw, k) ==
  /\ TaskReady
  /\ draw \in AllDraws
  /\ k \in 0..(RandomSteps - 1)
  /\ IF id \notin DOMAIN conversations
     THEN Commit(objs, trackers, arrs, conversations, reqs,
                 [NoOut EXCEPT !.op = "terminate", !.id = id, !.http = 404,
                    !.body = <<reason>>])
     ELSE LET g == getTracker(id, draw)
              t == g.objs[g.obj]
              terminationReason == IF reason # NULL THEN reason
                                   ELSE "MANUAL_TERMINATION"
          IN Commit([g.objs EXCEPT ![g.obj] = terminate(t, terminationReason)],
                    g.trackers,
                    [arrs EXCEPT ![conversations[id]] = @ + 1],
                    conversations, reqs,
                    [NoOut EXCEPT !.op = "terminate", !.id = id, !.obj = g.obj,
                       !.http = 200, !.checked = t, !.body = <<reason>>,
                       !.sendoff = getSendoffMessage(terminationReason, k),
                       !.result = TerminateResult(t, terminationReason, now)])

\* a removal that clears both maps
DeleteAll(id) ==
  /\ TaskReady
  /\ Commit(objs, <<>>, arrs, <<>>, reqs,
            [NoOut EXCEPT !.op = "delete", !.id = id, !.http = 200,
               !.body = <<id \in DOMAIN conversations>>])

\* DELETE /conversation/:id
Delete(id) ==
  /\ TaskReady
  /\ Commit(objs, Remove(trackers, id), arrs, Remove(conversations, id), reqs,
            [NoOut EXCEPT !.op = "delete", !.id = id, !.http = 200,
               !.body = <<id \in DOMAIN conversations>>])

\* a sweep that does not look at the status
CleanupAnyStatus ==
  /\ TaskReady
  /\ Commit(objs,
            Restrict(trackers,
              {i \in DOMAIN trackers :
                 ~(objs[trackers[i]].startTime < now - RETENTION_WINDOW)}),
            arrs, conversations, reqs,
            [NoOut EXCEPT !.op = "cleanup"])

\* TrackerManager.cleanup, run by the 15 minute timer
Cleanup ==
  /\ TaskReady
  /\ Commit(objs,
            Restrict(trackers,
              {i \in DOMAIN trackers :
                 ~(/\ objs[trackers[i]].startTime < now - RETENTION_WINDOW
                   /\ objs[trackers[i]].status = "completed")}),
            arrs, conversations, reqs,
            [NoOut EXCEPT !.op = "cleanup"])

\* GET /active-conversations: getState() of every active tracker
ListActive ==
  /\ TaskReady
  /\ Commit(objs, trackers, arrs, conversations, reqs,
            [NoOut EXCEPT !.op = "active", !.http = 200,
               !.body = <<{i \in DOMAIN trackers :
                            objs[trackers[i]].status = "active"}>>])

\* GET /completed-conversations: the final report of every completed tracker
ListCompleted ==
  /\ TaskReady
  /\ Commit(objs, trackers, arrs, conversations, reqs,
            [NoOut EXCEPT !.op = "completed", !.http = 200,
               !.body = <<{generateFinalReport(objs[trackers[i]], now) :
                            i \in {j \in DOMAIN trackers :
                                   objs[trackers[j]].status = "completed"}}>>])

\* time passes until the clock reads t
TickTo(t) ==
  /\ TaskReady
  /\ now < t
  /\ now' = t
  /\ UNCHANGED <<llmClient, objs, trackers, arrs, conversations, reqs, out>>

\* the draw of a tracker that getTracker(id) creates (any, when it exists)
DrawsFor(id, draws) == IF id \in DOMAIN trackers THEN {0} ELSE draws

\* the conversation of id has had fewer than k messages counted
Below(id, k) == id \in DOMAIN trackers => objs[trackers[id]].messageCount < k

\* the stored history of id is shorter than k
Shorter(id, k) == id \in DOMAIN conversations => arrs[conversations[id]] < k

(* ------------------------------------------------------------------ *)
(* One conversation, one request at a time, the clock running: the      *)
(* termination policy                                                   *)
(* ------------------------------------------------------------------ *)
Next ==
  \/ \E m \in {MsgBenign, MsgRich}, h \in ClientHistories :
        Below("s1", MaxFed) /\ Respond(1, "s1", m, h, 0)
  \/ \E a \in {LlmClean, FallbackAnalysis(reqs[1].message)} : Analysed(1, a)
  \/ \E raw \in AdvisoryAnswers : Advised(1, raw)
  \/ Replied(1)
  \/ \E reason \in ManualReasons :
        Shorter("s1", MaxHistory) /\ Terminate("s1", reason, 0, 0)
  \/ \E t \in Instants : TickTo(t)

Spec == Init /\ [][Next]_vars

(* ------------------------------------------------------------------ *)
(* One conversation with a provider configured, two requests at a time, *)
(* the operator, the listings and the sweep                             *)
(* ------------------------------------------------------------------ *)
InitRace == InitWith({"client"})

NextRace ==
  \/ \E s \in Slots, m \in {MsgBenign, MsgRich} :
        /\ Below("s1", MaxFedRace)
        /\ Shorter("s1", MaxHistoryRace)
        /\ Respond(s, "s1", m, NULL, 0)
  \/ \E s \in Slots : Analysed(s, FallbackAnalysis(reqs[s].message))
  \/ \E s \in Slots : Replied(s)
  \/ Shorter("s1", MaxHistoryRace + 1) /\ Terminate("s1", NULL, 0, 0)
  \/ Cleanup
  \/ ListActive
  \/ ListCompleted
  \/ \E t \in SweepInstants : TickTo(t)

SpecRace == InitRace /\ [][NextRace]_vars

(* ------------------------------------------------------------------ *)
(* One conversation fed up to the length cap, two requests at a time    *)
(* ------------------------------------------------------------------ *)
NextCap ==
  \/ \E s \in Slots, m \in {MsgBenign, MsgRich} :
        Below("s1", MaxFedCap) /\ Respond(s, "s1", m, NULL, 0)
  \/ \E s \in Slots : Analysed(s, FallbackAnalysis(reqs[s].message))
  \/ \E s \in Slots : Advised(s, AnswerText)
  \/ \E s \in Slots : Replied(s)

SpecCap == InitRace /\ [][NextCap]_vars

(* ------------------------------------------------------------------ *)
(* One conversation fed to the length cap, one request at a time, some  *)
(* messages being no strings, the provider answering every call         *)
(* ------------------------------------------------------------------ *)
NextCapThrown ==
  \/ \E m \in {MsgBenign, MsgNumber} :
        Below("s1", MaxFedCap) /\ Respond(1, "s1", m, NULL, 0)
  \/ Analysed(1, FallbackAnalysis(reqs[1].message))
  \/ Thrown(1, TRUE)
  \/ Advised(1, AnswerText)
  \/ Replied(1)

SpecCapThrown == InitRace /\ [][NextCapThrown]_vars

(* ------------------------------------------------------------------ *)
(* The registry called directly for two ids                             *)
(* ------------------------------------------------------------------ *)
NextManager ==
  \/ \E id \in Ids, draw \in {0, 14} : GetTracker(id, draw)
  \/ \E id \in Ids : RemoveTracker(id)
  \/ \E id \in Ids, m \in {MsgBenign, MsgRich} :
        Below(id, MaxFedManager) /\ AddMessage(id, "scammer", m, NoAnalysis)

SpecManager == InitWith({NULL}) /\ [][NextManager]_vars

(* ------------------------------------------------------------------ *)
(* One conversation without a provider, ended by the rules or by hand    *)
(* with a reason of the caller                                          *)
(* ------------------------------------------------------------------ *)
NextSendoff ==
  \/ \E m \in {MsgBenign, MsgRich} :
        Below("s1", MaxFedSendoff) /\ Respond(1, "s1", m, NULL, 0)
  \/ Analysed(1, FallbackAnalysis(reqs[1].message))
  \/ Advised(1, AnswerError)
  \/ Replied(1)
  \/ \E reason \in SendoffReasons, k \in Randoms :
        Shorter("s1", MaxHistorySendoff) /\ Terminate("s1", reason, 0, k)

SpecSendoff == InitWith({NULL}) /\ [][NextSendoff]_vars

(* ------------------------------------------------------------------ *)
(* One conversation without a provider: the hardcoded rules             *)
(* ------------------------------------------------------------------ *)
InitFallback == InitWith({NULL})

NextFallback ==
  \/ \E m \in Messages, h \in ClientHistories, draw \in DrawsFor("s1", {0, 14}) :
        Below("s1", MaxFedFallback) /\ Respond(1, "s1", m, h, draw)
  \/ Analysed(1, FallbackAnalysis(reqs[1].message))
  \/ Advised(1, AnswerError)
  \/ Replied(1)
  \/ TickTo(MAX_CONVERSATION_DURATION)

SpecFallback == InitFallback /\ [][NextFallback]_vars

(* ------------------------------------------------------------------ *)
(* Two conversations, one request at a time: requests (some with a      *)
(* message that is no string), manual termination and removal           *)
(* ------------------------------------------------------------------ *)
FedBound(id) == IF id = "s1" THEN MaxFedRace ELSE MaxFedOther

NextFrame ==
  \/ \E id \in Ids, m \in {MsgRich, MsgNumber} :
        /\ Below(id, FedBound(id))
        /\ Shorter(id, MaxHistoryRace)
        /\ Respond(1, id, m, NULL, 0)
  \/ Analysed(1, FallbackAnalysis(reqs[1].message))
  \/ \E answered \in BOOLEAN : Thrown(1, answered)
  \/ Replied(1)
  \/ \E id \in Ids : Shorter(id, MaxHistoryRace) /\ Terminate(id, NULL, 0, 0)
  \/ \E id \in Ids : Delete(id)

SpecFrame == Init /\ [][NextFrame]_vars

(* ------------------------------------------------------------------ *)
(* Two conversations without a provider, manual termination, the sweep  *)
(* and the clock around the retention window                            *)
(* ------------------------------------------------------------------ *)
NextSweep ==
  \/ \E id \in Ids :
        Below(id, MaxFedSweep) /\ Respond(1, id, MsgBenign, NULL, 0)
  \/ Analysed(1, FallbackAnalysis(reqs[1].message))
  \/ Replied(1)
  \/ \E id \in Ids : Shorter(id, MaxHistorySweep) /\ Terminate(id, NULL, 0, 0)
  \/ Cleanup
  \/ \E t \in WindowInstants : TickTo(t)

SpecSweep == InitFallback /\ [][NextSweep]_vars

(* ------------------------------------------------------------------ *)
(* One tracker, called directly with every kind of analysis object      *)
(* ------------------------------------------------------------------ *)
InitTracker ==
  /\ llmClient = NULL
  /\ now = 0
  /\ \E draw \in {0, 5, 14} : objs = Put(<<>>, 1, NewTracker("s1", 0, draw))
  /\ trackers = Put(<<>>, "s1", 1)
  /\ arrs = <<>>
  /\ conversations = <<>>
  /\ reqs = [s \in Slots |-> IdleReq]
  /\ out = NoOut

NextTracker ==
  \/ \E m \in TrackerMessages :
       \E a \in TrackerAnalyses \cup {FallbackAnalysis(m)} :
         Below("s1", MaxFedTracker) /\ AddMessage("s1", "scammer", m, a)
  \/ Below("s1", MaxFedTracker) /\ AddMessage("s1", "honeypot", MsgBenign, NoAnalysis)

SpecTracker == InitTracker /\ [][NextTracker]_vars

(* ------------------------------------------------------------------ *)
(* One tracker, called directly with analyses that miss fields          *)
(* ------------------------------------------------------------------ *)
NextPartial ==
  \E a \in PartialAnalyses :
    Below("s1", MaxFedPartial) /\ AddMessage("s1", "scammer", MsgBenign, a)

SpecPartial == InitTracker /\ [][NextPartial]_vars

(* ------------------------------------------------------------------ *)
(* One conversation without a provider that is ended by hand, swept and  *)
(* asked for again                                                      *)
(* ------------------------------------------------------------------ *)
NextRevive ==
  \/ Below("s1", MaxFedRevive) /\ Shorter("s1", MaxHistoryRevive)
        /\ Respond(1, "s1", MsgBenign, NULL, 0)
  \/ Analysed(1, FallbackAnalysis(reqs[1].message))
  \/ Replied(1)
  \/ Shorter("s1", MaxHistoryRevive) /\ Terminate("s1", NULL, 0, 0)
  \/ TickTo(RETENTION_WINDOW + 1)
  \/ Cleanup
  \/ ReadTracker("s1", 0)
  \/ ReadConversation("s1", 0)
  \/ ListActive

SpecRevive == InitFallback /\ [][NextRevive]_vars

(* ------------------------------------------------------------------ *)
(* One tracker of any threshold, called directly                        *)
(* ------------------------------------------------------------------ *)
NextThreshold ==
  \/ \E draw \in AllDraws : "s1" \notin DOMAIN trackers /\ GetTracker("s1", draw)
  \/ \E m \in {MsgBenign, MsgOtp, MsgRich} :
        Below("s1", MaxFedThreshold)
        /\ AddMessage("s1", "scammer", m, FallbackAnalysis(m))
  \/ Below("s1", MaxFedThreshold)
        /\ AddMessage("s1", "honeypot", MsgBenign, NoAnalysis)

SpecThreshold == InitFallback /\ [][NextThreshold]_vars

(* ------------------------------------------------------------------ *)
(* Terminal stability                                                   *)
(* ------------------------------------------------------------------ *)
\* C1: a request for a conversation that has ended is answered with the
\* termination reason and the final report that the step before it
\* returned for the same tracker (the report produced at completion, or
\* the one an earlier such request was answered with), and leaves the
\* tracker's messageCount and extractedData as they were.
C1_SameReportAfterCompletion ==
  [][(/\ out.result.status = "completed"
      /\ out'.op = "respond"
      /\ out'.obj = out.obj
      /\ out'.result.status = "completed")
     => /\ out'.result.terminationReason = out.result.terminationReason
        /\ out'.result.finalReport = out.result.finalReport
        /\ objs'[out.obj].messageCount = objs[out.obj].messageCount
        /\ objs'[out.obj].extractedData = objs[out.obj].extractedData]_vars

\* C2: in every step, a tracker that is Completed before the step is
\* Completed after it, and a tracker's status is Active or Completed.
C2_CompletedStaysCompleted ==
  [][\A o \in DOMAIN objs \cap DOMAIN objs' :
       /\ objs'[o].status \in {"active", "completed"}
       /\ objs[o].status = "completed" => objs'[o].status = "completed"]_vars

\* a handler that was suspended when the conversation ended has counted
\* its message on the Completed tracker, the check found nothing to end,
\* and the tracker is Completed still
C2_Witness ==
  /\ out.op = "addMessage"
  /\ out.result.shouldContinue
  /\ out.obj \in DOMAIN objs
  /\ objs[out.obj].status = "completed"
  /\ objs[out.obj].messageCount = out.checked.messageCount

\* C3: terminationReason is null exactly while the tracker is Active, and
\* once it is set no step changes it.
C3_ReasonSetOnce ==
  [][\A o \in DOMAIN objs \cap DOMAIN objs' :
       /\ (objs'[o].terminationReason = NULL) = (objs'[o].status = "active")
       /\ objs[o].terminationReason # NULL
            => objs'[o].terminationReason = objs[o].terminationReason]_vars

(* ------------------------------------------------------------------ *)
(* The termination policy                                               *)
(* ------------------------------------------------------------------ *)
\* C4: the reason a processed scammer message ends with is that of the
\* first check whose condition holds, in the order message-count cap,
\* duration cap, inactivity cap (the time since the last activity before
\* this message), advisory recommendation, completeness rule, frustration
\* rule; when a cap holds the advisory is not asked; when no condition
\* holds the conversation continues.
C4_StrictPriority ==
  (out.op = "addMessage" /\ out.sender = "scammer") =>
    LET t == out.checked
        reason == out.result.terminationReason
        countCap == t.messageCount >= MAX_CONVERSATION_LENGTH
        durationCap == out.at - t.startTime >= MAX_CONVERSATION_DURATION
        inactivityCap == out.at - out.prevActivity >= INACTIVITY_TIMEOUT
        advised == out.asked /\ out.decision.shouldTerminate
        complete == /\ t.messageCount >= MIN_MESSAGES_FOR_EXTRACTION
                    /\ t.completenessScore >= t.completenessThreshold
        frustrated == t.scammerFrustrationLevel >= SCAMMER_FRUSTRATION_THRESHOLD
    IN IF countCap THEN reason = "MAX_MESSAGES_REACHED" /\ ~out.asked
       ELSE IF durationCap THEN reason = "MAX_DURATION_REACHED" /\ ~out.asked
       ELSE IF inactivityCap THEN reason = "INACTIVITY_TIMEOUT" /\ ~out.asked
       ELSE IF advised THEN reason = TerminationMap(out.decision.reason)
       ELSE IF complete THEN reason = "EXTRACTION_COMPLETE"
       ELSE IF frustrated THEN reason = "SCAMMER_FRUSTRATED"
       ELSE reason = NULL

C7_AdvisoryFailureFallsBack ==
  (/\ out.op = "addMessage"
   /\ out.asked
   /\ llmClient # NULL
   /\ out.answer.kind \in {"error", "text"})
  => /\ out.http \in {0, 200}
     /\ out.decision = ContinueDecision
     /\ IF FallbackRule(out.checked) # NULL
        THEN /\ out.result.status = "completed"
             /\ out.result = TerminateResult(out.checked, FallbackRule(out.checked),
                                             out.result.finalReport.endTime)
        ELSE out.result = ContinueResult(out.checked, out.at - out.checked.startTime)

\* the provider failed and the completeness rule ended the conversation
C7_Witness ==
  /\ out.op = "addMessage"
  /\ out.asked
  /\ llmClient # NULL
  /\ out.answer.kind = "error"
  /\ out.result.terminationReason = "EXTRACTION_COMPLETE"

\* C8: a termination the advisory recommends carries EXTRACTION_COMPLETE,
\* SCAMMER_SUSPICIOUS or SCAMMER_FRUSTRATED, whatever category the
\* recommendation names or omits.
C8_AdvisoryReasons ==
  (out.op = "addMessage" /\ out.asked /\ out.decision.shouldTerminate)
  => out.result.terminationReason \in
       {"EXTRACTION_COMPLETE", "SCAMMER_SUSPICIOUS", "SCAMMER_FRUSTRATED"}

\* C9: a message processed InactivityTimeout or more after the tracker's
\* last activity, with neither the length cap nor the duration cap
\* reached, ends with INACTIVITY_TIMEOUT.
C9_InactivityEnds ==
  (/\ out.op = "addMessage"
   /\ out.at - out.prevActivity >= INACTIVITY_TIMEOUT
   /\ out.checked.messageCount < MAX_CONVERSATION_LENGTH
   /\ out.at - out.checked.startTime < MAX_CONVERSATION_DURATION)
  => out.result.terminationReason = "INACTIVITY_TIMEOUT"

\* C10: a message processed MaxDuration or more after the tracker's start,
\* with messageCount below MaxMessages, ends with MAX_DURATION_REACHED and
\* the advisory is not asked.
C10_DurationCapDecides ==
  (/\ out.op = "addMessage"
   /\ out.at - out.checked.startTime >= MAX_CONVERSATION_DURATION
   /\ out.checked.messageCount < MAX_CONVERSATION_LENGTH)
  => /\ out.result.status = "completed"
     /\ out.result.terminationReason = "MAX_DURATION_REACHED"
     /\ ~out.asked

\* the duration cap ends a conversation whose data are complete and whose
\* history is long enough for the advisory
C10_Witness ==
  /\ out.op = "addMessage"
  /\ out.sender = "scammer"
  /\ llmClient # NULL
  /\ out.checked.messageCount >= MIN_MESSAGES_FOR_EXTRACTION
  /\ out.checked.completenessScore >= out.checked.completenessThreshold
  /\ out.result.terminationReason = "MAX_DURATION_REACHED"
  /\ out.body[2] > MIN_HISTORY_FOR_LLM

NextReport ==
  \/ \E m \in {MsgBenign, MsgOtp, MsgLink, MsgBrand} :
        /\ Below("s1", MaxFedReport)
        /\ objs[trackers["s1"]].status = "active"
        /\ AddMessage("s1", "scammer", m, NoAnalysis)
  \/ objs[trackers["s1"]].status = "active"
        /\ TerminateTracker("s1", "MANUAL_TERMINATION")

SpecReport == InitTracker /\ [][NextReport]_vars

(* ------------------------------------------------------------------ *)
(* One tracker, created with every draw and called directly with        *)
(* messages that carry an impatience marker or none                     *)
(* ------------------------------------------------------------------ *)
NextDirect ==
  \/ \E draw \in AllDraws : "s1" \notin DOMAIN trackers /\ GetTracker("s1", draw)
  \/ \E m \in {MsgBenign, MsgFrustrated}, a \in {NoAnalysis, LlmScam} :
        Below("s1", MaxFedDirect) /\ AddMessage("s1", "scammer", m, a)
  \/ Below("s1", MaxFedDirect) /\ AddMessage("s1", "honeypot", MsgFrustrated, NoAnalysis)

SpecDirect == InitFallback /\ [][NextDirect]_vars

(* ------------------------------------------------------------------ *)
(* One conversation without a provider behind the key check, API_KEY    *)
(* configured                                                           *)
(* ------------------------------------------------------------------ *)
NextAuth ==
  \/ \E path \in publicEndpoints \cup ProtectedEndpoints, key \in RequestKeys :
        /\ path = "/honeypot/respond" => Below("s1", MaxFedAuth)
        /\ path = "/tracker/:id/terminate" => Shorter("s1", MaxHistoryAuth)
        /\ \E method \in {"OPTIONS", RouteMethod(path)} : Arrive(method, path, key)
  \/ Preflight
  \/ Reject
  \/ ServePublic
  \/ Passes /\ out.body[1] = "/honeypot/respond"
        /\ \E m \in {MsgBenign, MsgLink} : Respond(1, "s1", m, NULL, 0)
  \/ Analysed(1, FallbackAnalysis(reqs[1].message))
  \/ Replied(1)
  \/ Passes /\ out.body[1] = "/tracker/:id/terminate" /\ Terminate("s1", NULL, 0, 0)
  \/ Passes /\ out.body[1] = "/conversation/:id" /\ Delete("s1")
  \/ Passes /\ out.body[1] = "/active-conversations" /\ ListActive

SpecAuth == InitFallback /\ [][NextAuth]_vars

(* ------------------------------------------------------------------ *)
(* Completeness of the extracted data                                   *)
(* ------------------------------------------------------------------ *)
\* C12: whatever messages are processed, with whatever analysis merged in,
\* the completenessScore of a tracker after a step is never below the score
\* it had after the step before.
C12_ScoreNeverDrops ==
  [][\A id \in DOMAIN trackers \cap DOMAIN trackers' :
       objs'[trackers'[id]].completenessScore
         >= objs[trackers[id]].completenessScore]_vars

\* a third message raised a score that earlier messages had already raised
C12_Witness ==
  /\ out.op = "addMessage"
  /\ objs[out.obj].messageCount = MaxFedTracker
  /\ ScoreOf(out.body[3]) >= 25
  /\ objs[out.obj].completenessScore > ScoreOf(out.body[3])

\* extractedData after analyzeScammerMessage(m) and mergeAnalysisResult(a)
Extracted(t, m, a) ==
  mergeAnalysisResult(analyzeScammerMessage(t, m), a)

\* C13: for every tracker and every extraction result (the candidates of one
\* message and one structured analysis), merging the result a second time
\* leaves extractedData as the first merge left it.
C13_MergeIdempotent ==
  \A o \in DOMAIN objs : \A m \in TrackerMessages :
    \A a \in (TrackerAnalyses \cup {FallbackAnalysis(m)}) \ {NoAnalysis} :
      LET once == Extracted(objs[o], m, a)
      IN Extracted(once, m, a).extractedData = once.extractedData

\* the message and analysis processed last had been processed before: the
\* data before the call was already what one merge of them gives
C13_Witness ==
  /\ out.op = "addMessage" /\ out.sender = "scammer"
  /\ out.body[1] = MsgRich.text /\ out.body[2] = LlmScam
  /\ out.body[3] = Extracted(NewTracker("s1", 0, 5), MsgRich, LlmScam).extractedData
  /\ objs[out.obj].extractedData = out.body[3]
  /\ Len(out.body[3].scamType) >= 2

C15_Serialized ==
  [][\A s \in Slots :
       (reqs[s].pc # "idle" /\ reqs'[s] = reqs[s])
         => objs'[reqs[s].tracker] = objs[reqs[s].tracker]]_vars

\* C16: when the tracker was completed (by a manual termination) while
\* addMessage waited for shouldTerminateWithLLM, the resumed call leaves
\* status and terminationReason as they are and does not return a result
\* that says continue.
C16_ResumedCallDetectsTermination ==
  [][(/\ out'.op = "addMessage" /\ out'.asked
      /\ now' = now
      /\ out'.obj \in DOMAIN objs
      /\ objs[out'.obj].status = "completed")
     => /\ objs'[out'.obj].status = "completed"
        /\ objs'[out'.obj].terminationReason = objs[out'.obj].terminationReason
        /\ ~out'.result.shouldContinue]_vars

\* C17: a call of addMessage that waits for shouldTerminateWithLLM is cut
\* off when the provider does not answer: no call is still waiting when the
\* longest time the policy allows a conversation has passed since it asked.
C17_AdvisoryCutOff ==
  \A s \in Slots :
    reqs[s].pc = "advisory" => now - reqs[s].at < MAX_CONVERSATION_DURATION

(* ------------------------------------------------------------------ *)
(* Isolation of conversations                                           *)
(* ------------------------------------------------------------------ *)
\* the conversation ids a step works on
Touched ==
  ({out'.id} \cup {reqs[s].id : s \in {x \in Slots : reqs'[x] # reqs[x]}}
             \cup {reqs'[s].id : s \in {x \in Slots : reqs'[x] # reqs[x]}})
  \ {NULL}

\* C18: a step that works on conversation A (a request, also one that fails
\* on its input, a manual termination, a removal) leaves the tracker of
\* every other conversation B as it was: neither created, nor removed, nor
\* changed.
C18_OtherTrackersUnchanged ==
  [][\A B \in Ids :
       (Touched # {} /\ B \notin Touched)
         => /\ (B \in DOMAIN trackers) = (B \in DOMAIN trackers')
            /\ B \in DOMAIN trackers => objs'[trackers'[B]] = objs[trackers[B]]]_vars

\* a request for s1 failed on its input after it was counted, while s2 has
\* a tracker that has counted messages
C18_Witness ==
  /\ out.op = "respond" /\ out.http = 500 /\ out.id = "s1"
  /\ out.body = <<"error", TRUE>>
  /\ out.obj \in DOMAIN objs
  /\ objs[out.obj].messageCount = out.checked.messageCount + 1
  /\ "s2" \in DOMAIN trackers
  /\ objs[trackers["s2"]].messageCount = MaxFedOther

(* ------------------------------------------------------------------ *)
(* The sweep                                                            *)
(* ------------------------------------------------------------------ *)
\* C19: a sweep removes the trackers that are completed and were started
\* more than RETENTION_WINDOW (one hour) before now, and no other: an active
\* tracker is never removed, none is added, and every tracker that remains
\* is as it was.
C19_SweepRemovesOldCompleted ==
  [][(out'.op = "cleanup" /\ now' = now)
     => /\ DOMAIN trackers' \subseteq DOMAIN trackers
        /\ \A id \in DOMAIN trackers :
             LET t == objs[trackers[id]]
             IN /\ (id \notin DOMAIN trackers')
                     = (t.status = "completed" /\ t.startTime < now - RETENTION_WINDOW)
                /\ t.status = "active" => id \in DOMAIN trackers'
                /\ id \in DOMAIN trackers' => objs'[trackers'[id]] = t]_vars

\* a sweep has removed the completed tracker of s1 and kept the tracker of
\* s2, which is as old and active
C19_Witness ==
  /\ out.op = "cleanup"
  /\ "s1" \in DOMAIN conversations /\ "s1" \notin DOMAIN trackers
  /\ "s2" \in DOMAIN trackers
  /\ objs[trackers["s2"]].status = "active"
  /\ objs[trackers["s2"]].startTime < now - RETENTION_WINDOW

(* ------------------------------------------------------------------ *)
(* The final report                                                     *)
(* ------------------------------------------------------------------ *)
\* C20: the scamSeverity of a final report is CRITICAL exactly when the
\* scam types hold one of FINANCIAL_FRAUD, OTP_THEFT, IDENTITY_THEFT and
\* there are links, HIGH exactly when they hold one and there are no links,
\* MEDIUM exactly when there are scam types but none of these, and LOW
\* exactly when there is no scam type.
C20_SeverityTable ==
  out.result.status = "completed"
    => LET r == out.result.finalReport
           d == r.extractedIntelligence
           high == \E i \in 1..Len(d.scamType) :
                     d.scamType[i] \in {"FINANCIAL_FRAUD", "OTP_THEFT", "IDENTITY_THEFT"}
       IN /\ (r.scamSeverity = "CRITICAL") = (high /\ d.links # <<>>)
          /\ (r.scamSeverity = "HIGH") = (high /\ d.links = <<>>)
          /\ (r.scamSeverity = "MEDIUM") = (~high /\ d.scamType # <<>>)
          /\ (r.scamSeverity = "LOW") = (d.scamType = <<>>)

\* a report of MEDIUM severity whose data hold links: scam types, none of
\* them of high severity
C20_Witness ==
  /\ out.op = "tracker.terminate"
  /\ out.result.finalReport.scamSeverity = "MEDIUM"
  /\ out.result.finalReport.extractedIntelligence.links # <<>>

(* ------------------------------------------------------------------ *)
(* Frustration and the completeness threshold                           *)
(* ------------------------------------------------------------------ *)
\* C21: the frustration level of a tracker is 0 when the tracker is
\* created, stays within 0..100 and never goes down: a scammer message with
\* an impatience marker raises it by 15, capped at 100, and every other step
\* (an agent message, a scammer message without a marker, whatever analysis
\* is merged) leaves it as it is.
C21_FrustrationLevel ==
  [][\A id \in DOMAIN trackers' :
       LET after == objs'[trackers'[id]].scammerFrustrationLevel
           marked == /\ out'.op = "addMessage" /\ out'.id = id
                     /\ out'.sender = "scammer"
                     /\ out'.body[1] \in {MsgFrustrated.text, MsgPushy.text}
       IN /\ after \in 0..FRUSTRATION_CAP
          /\ id \notin DOMAIN trackers => after = 0
          /\ id \in DOMAIN trackers =>
               LET before == objs[trackers[id]].scammerFrustrationLevel
               IN /\ after >= before
                  /\ marked => after = Min(100, before + 15)
                  /\ ~marked => after = before]_vars

\* a marker has raised the level from 90 to the cap
C21_Witness ==
  /\ out.op = "addMessage" /\ out.sender = "scammer"
  /\ out.body[1] = MsgFrustrated.text
  /\ objs[out.obj].scammerFrustrationLevel = 100
  /\ objs[out.obj].messageCount = MaxFedDirect

\* C22: the completenessThreshold of a tracker is a whole number from 65 to
\* 85 and, once the tracker is created, no step changes it.
C22_ThresholdFixed ==
  [][\A id \in DOMAIN trackers' :
       /\ objs'[trackers'[id]].completenessThreshold \in 65..85
       /\ id \in DOMAIN trackers =>
            objs'[trackers'[id]].completenessThreshold
              = objs[trackers[id]].completenessThreshold]_vars

\* a tracker created with the largest draw has processed messages and has
\* been completed
C22_Witness ==
  /\ out.op = "addMessage"
  /\ objs[out.obj].completenessThreshold = 79
  /\ objs[out.obj].status = "completed"
  /\ objs[out.obj].messageCount >= MIN_MESSAGES_FOR_EXTRACTION

(* ------------------------------------------------------------------ *)
(* The impersonated entity                                              *)
(* ------------------------------------------------------------------ *)
\* C23: once impersonatedEntity of a tracker is set, a step gives it another
\* value only when the analysis handed to addMessage supplies that value as
\* the impersonatedEntity of its extraction; an entity found by the
\* patterns of analyzeScammerMessage does not replace it.
C23_EntityKept ==
  [][\A id \in DOMAIN trackers \cap DOMAIN trackers' :
       LET before == objs[trackers[id]].extractedData.impersonatedEntity
           after == objs'[trackers'[id]].extractedData.impersonatedEntity
       IN (before # NULL /\ after # before)
            => /\ out'.op = "addMessage" /\ out'.id = id
               /\ out'.body[2].given
               /\ Has(out'.body[2], "llmExtraction")
               /\ out'.body[2].llmExtraction.impersonatedEntity = after]_vars

C25_ReadmeMinimum ==
  (/\ out.op = "addMessage"
   /\ out.result.status = "completed"
   /\ out.result.terminationReason
        \notin {"MAX_MESSAGES_REACHED", "MAX_DURATION_REACHED", "INACTIVITY_TIMEOUT"})
  => out.checked.messageCount >= README_MINIMUM_MESSAGES

(* ------------------------------------------------------------------ *)
(* The webhook                                                          *)
(* ------------------------------------------------------------------ *)
\* C26: whenever a step completes the tracker of a conversation (the
\* policy on a processed message, or a manual termination), the handler
\* that took the step sends the intelligence of that conversation to the
\* webhook.
C26_ReportSent ==
  [][\A id \in DOMAIN trackers \cap DOMAIN trackers' :
       (/\ objs[trackers[id]].status = "active"
        /\ objs'[trackers'[id]].status = "completed")
         => out'.webhook /\ out'.id = id]_vars

C28_ReplyNeverEnds ==
  [][(/\ out'.op = "addMessage"
      /\ out'.sender = "honeypot"
      /\ out'.obj \in DOMAIN objs \cap DOMAIN objs'
      /\ objs[out'.obj].status = "active")
     => objs'[out'.obj].status = "active"]_vars

C31_ActiveBelowCap ==
  \A o \in DOMAIN objs :
    objs[o].status = "active" => objs[o].messageCount < 30

\* C32: no tracker's messageCount ever exceeds MAX_CONVERSATION_LENGTH (30),
\* whatever the interleaving of the requests for its session.
C32_CountNeverExceedsCap ==
  \A o \in DOMAIN objs : objs[o].messageCount <= 30

(* ------------------------------------------------------------------ *)
(* The categories of extractedData                                      *)
(* ------------------------------------------------------------------ *)
\* C33: every array category of extractedData is a grow-only set without
\* duplicates: after any operation on a tracker each category holds every
\* value it held before and no value twice, and impersonatedEntity, once
\* it is not null, does not return to null.
C33_CategoriesGrowOnly ==
  [][\A id \in DOMAIN trackers \cap DOMAIN trackers' :
       trackers'[id] = trackers[id]
       => LET before == objs[trackers[id]].extractedData
              after == objs'[trackers[id]].extractedData
          IN /\ \A f \in ArrayFields :
                  /\ Range(before[f]) \subseteq Range(after[f])
                  /\ Cardinality(Range(after[f])) = Len(after[f])
             /\ before.impersonatedEntity # NULL
                  => after.impersonatedEntity # NULL]_vars

\* a third message is merged into categories that hold values of the first
\* two, one of them a value found again, the entity being known
C33_Witness ==
  /\ out.op = "addMessage" /\ out.sender = "scammer"
  /\ out.checked.messageCount = 3
  /\ out.body[1] = MsgRich.text
  /\ "PHISHING" \in Range(out.body[3].scamType)
  /\ out.body[3].impersonatedEntity # NULL
  /\ Len(objs[out.obj].extractedData.scamType) >= 3

(* ------------------------------------------------------------------ *)
(* The registry                                                         *)
(* ------------------------------------------------------------------ *)
\* C34: the registry holds at most one tracker per session id and no two
\* ids share one; getTracker creates a fresh active tracker (messageCount 0,
\* empty extractedData) only when the id has none and otherwise returns the
\* existing tracker unchanged; removeTracker removes the tracker of the
\* given id and no other.
C34_OneTrackerPerId ==
  [][LET Others(id) == DOMAIN trackers \ {id}
         Kept(id) == /\ DOMAIN trackers' \ {id} = Others(id)
                     /\ \A j \in Others(id) :
                          /\ trackers'[j] = trackers[j]
                          /\ objs'[trackers'[j]] = objs[trackers[j]]
     IN /\ \A i, j \in DOMAIN trackers' :
              trackers'[i] = trackers'[j] => i = j
        /\ (out'.op = "getTracker" /\ out' # out)
             => /\ out'.id \in DOMAIN trackers'
                /\ out'.obj = trackers'[out'.id]
                /\ Kept(out'.id)
                /\ IF out'.id \in DOMAIN trackers
                   THEN /\ trackers'[out'.id] = trackers[out'.id]
                        /\ objs'[out'.obj] = objs[out'.obj]
                   ELSE /\ objs'[out'.obj].conversationId = out'.id
                        /\ objs'[out'.obj].status = "active"
                        /\ objs'[out'.obj].messageCount = 0
                        /\ objs'[out'.obj].extractedData = EmptyData
        /\ (out'.op = "removeTracker" /\ out' # out)
             => /\ out'.id \notin DOMAIN trackers'
                /\ Kept(out'.id)]_vars

\* getTracker has returned the tracker of s1, which has counted messages,
\* while s2 has a tracker as well
C34_Witness ==
  /\ out.op = "getTracker" /\ out.id = "s1"
  /\ objs[out.obj].messageCount = MaxFedManager
  /\ "s2" \in DOMAIN trackers
  /\ objs[trackers["s2"]].messageCount > 0

(* ------------------------------------------------------------------ *)
(* Sendoff messages                                                     *)
(* ------------------------------------------------------------------ *)
\* C35: every termination reason, a reason of the caller outside the fixed
\* enumeration included, resolves to a defined sendoff message (a generic
\* one when the reason is unknown): the handler that ends a conversation
\* never pushes an undefined sendoff.
C35_SendoffDefined ==
  (out.op \in {"terminate", "addMessage"} /\ out.http = 200
   /\ out.result.status = "completed")
  => LET all == UNION {Range(SENDOFF_MESSAGES[r]) : r \in DOMAIN SENDOFF_MESSAGES}
     IN /\ out.sendoff \in all
        /\ out.result.terminationReason \notin DOMAIN SENDOFF_MESSAGES
             => out.sendoff \in Range(SENDOFF_MESSAGES.DEFAULT)

(* ------------------------------------------------------------------ *)
(* Analyses with missing fields                                         *)
(* ------------------------------------------------------------------ *)
\* C36: addMessage with an analysis object in which any subset of the
\* fields is missing returns a result; the missing fields bring nothing
\* into extractedData, and the values of the fields that are there are
\* merged into their categories as usual (psychologicalTechniques of the
\* analysis only when it carries no llmExtraction).
C36_MissingFieldsIgnored ==
  (/\ out.op = "addMessage" /\ out.body[1] = MsgBenign.text
   /\ out.body[2] \in PartialAnalyses /\ out.body[3] = EmptyData)
  => LET a == out.body[2]
         after == objs[out.obj].extractedData
         Top(f) == f \in a.present
         Ext(f) == Top("llmExtraction") /\ f \in a.llmExtraction.present
         \* the values v are all in the category when fed, and none when not
         Fed(v, cat, fed) ==
           Range(v) \cap Range(after[cat]) = (IF fed THEN Range(v) ELSE {})
     IN /\ out.result.status \in {"active", "completed"}
        /\ objs[out.obj].messageCount = out.checked.messageCount
        /\ Fed(a.scamTypes, "scamType", Top("scamTypes"))
        /\ Fed(a.attempted, "requestedData", Top("attempted"))
        /\ Fed(a.vectorLinks, "links", Top("vectorLinks"))
        /\ Fed(a.vectorPhones, "phoneNumbers", Top("vectorPhones"))
        /\ Fed(a.vectorEmails, "emails", Top("vectorEmails"))
        /\ Fed(a.redFlags, "keyPhrases", Top("redFlags"))
        /\ Fed(a.psychologicalTechniques, "psychologicalTechniques",
               Top("psychologicalTechniques") /\ ~Top("llmExtraction"))
        /\ \A f \in {"links", "phoneNumbers", "emails", "bankAccounts", "upiIds",
                      "suspiciousKeywords", "requestedData",
                      "psychologicalTechniques"} :
             Fed(a.llmExtraction[f], f, Ext(f))
        /\ Fed(<<a.llmExtraction.scamType>>, "scamType", Ext("scamType"))
        /\ after.impersonatedEntity
             = (IF Ext("impersonatedEntity")
                THEN a.llmExtraction.impersonatedEntity ELSE NULL)
        /\ Fed(<<"IMPERSONATION">>, "scamType", Ext("impersonatedEntity"))
        /\ Fed(<<"MALICIOUS_LINK">>, "attackMethod", Ext("links"))
        /\ Fed(<<"DETECTED_BY_LLM">>, "scamType",
               Top("isScam") /\ ~Top("scamTypes"))

\* an extraction that carries emails and scamType and nothing else was
\* merged: the emails are kept, no link and no entity
C36_Witness ==
  /\ out.op = "addMessage"
  /\ out.body[2] = Partial({"llmExtraction"}, {"emails", "scamType"})
  /\ objs[out.obj].extractedData.emails = <<"e@e.io">>
  /\ objs[out.obj].extractedData.scamType = <<"TECH_SUPPORT">>
  /\ objs[out.obj].extractedData.links = <<>>
  /\ objs[out.obj].extractedData.impersonatedEntity = NULL

(* ------------------------------------------------------------------ *)
(* After the sweep                                                      *)
(* ------------------------------------------------------------------ *)
\* C37: a session id whose tracker has reached completed is never listed
\* as active afterwards: a completed tracker stays completed while it is
\* registered, and once the sweep has removed it (the history of the id is
\* still stored, its tracker is gone) no request for the id registers an
\* active tracker for it.
C37_NoActiveAfterCompleted ==
  [][\A id \in Ids :
       LET activeAfter == /\ id \in DOMAIN trackers'
                          /\ objs'[trackers'[id]].status = "active"
       IN /\ (id \in DOMAIN trackers /\ objs[trackers[id]].status = "completed")
               => ~activeAfter
          /\ (id \notin DOMAIN trackers /\ id \in DOMAIN conversations)
               => ~activeAfter]_vars

\* C38: in every reachable state every session id that has a stored
\* history also has a tracker in the registry.
C38_HistoryHasTracker == DOMAIN conversations \subseteq DOMAIN trackers

C40_FailedCallChangesNothing ==
  (out.op = "respond" /\ out.http = 500 /\ out.obj \in DOMAIN objs)
  => LET before == out.checked
         after == objs[out.obj]
     IN /\ after.messageCount = before.messageCount
        /\ after.lastActivityTime = before.lastActivityTime
        /\ after.extractedData = before.extractedData
        /\ after.scammerFrustrationLevel = before.scammerFrustrationLevel
        /\ after.completenessScore = before.completenessScore
        /\ after.status = before.status

====
